---- MODULE Spec2Model ----
(***************************************************************************)
(* noscript-chat (src/main.go): the topic registry, the broadcast fan-out, *)
(* the history replay and the per-connection driver, as a state machine.   *)
(*                                                                         *)
(* Every goroutine serving a request is a process.  A connection process   *)
(* runs App.GetHandler once, a poster process runs App.PostHandler again   *)
(* and again.  A step of a process is what it does between two points      *)
(* where it can be made to wait or another goroutine can see a difference: *)
(* a write to the client, a channel operation, an unprotected read, and a  *)
(* lock that is held across any of these.  A critical section that holds   *)
(* nothing but locks and protected data (addChan, removeChan, append) is   *)
(* one step, taken when all of its locks are free; until then the process  *)
(* stands before it, which is how a goroutine blocked in Lock() appears.   *)
(* So is a fan-out: a loop of sends that never wait, under a read lock.    *)
(* Go's RWMutex also turns readers away while a writer waits; that only    *)
(* removes interleavings and is left out.                                  *)
(***************************************************************************)
EXTENDS Integers, Sequences, FiniteSets, TLC

(***************************************************************************)
(* The instance.  historyLimit, bufferSize and maxMsgLen are the constants  *)
(* of src/main.go lines 15, 24 and 21 (20, 5 and 1024 there), here with    *)
(* small values: no step depends on more than their order to the lengths   *)
(* it compares them with.                                                  *)
(***************************************************************************)
historyLimit == 2

bufferSize == 2

maxMsgLen == 3

\* the number of Update objects created in one behaviour
MaxPosts == 1

\* time.Now().UTC().Format("2006-01-02 15:04:05"): the clock is read as one value
Timestamps == {"2006-01-02 15:04:05"}

NoTimestamp == ""

Conns == {"c1", "c2", "c3"}

Posters == {"p1", "p2"}

Procs == Conns \cup Posters

Topics == {"a", "b"}

\* a Topic object is named by the order of its allocation; 0 is the nil pointer
TopicIds == 1..Cardinality(Conns)

NoTopic == 0

VARIABLES
    pc,            \* where each process is in its handler
    topics,        \* App.topics: topic name -> *Topic (NoTopic: no entry)
    topicsMutex,   \* App.topicsMutex
    chans,         \* Topic.chans of every Topic object
    chansMutex,    \* Topic.chansMutex of every Topic object
    history,       \* Topic.history of every Topic object
    historyMutex,  \* Topic.historyMutex of every Topic object
    nextTopic,     \* number of Topic objects allocated so far (NewTopic)
    queue,         \* the buffer of each connection's channel ch
    broken,        \* the client of the connection is gone: its writes fail
    topic,         \* local: the topic name of the request
    t,             \* local: the *Topic a handler works on
    data,          \* local: the payload a fan-out is sending
    idx,           \* local: index of sendHistory's range loop
    msg,           \* local: the payload GetHandler took from its channel
    form,          \* local: the form value msg of the POST request
    update,        \* local: the *Update PostHandler created
    tearing,       \* local: GetHandler is running its deferred function
    nextUpdate,    \* number of Update objects allocated so far
    replayed,      \* history variable: the updates written to each client as
                   \*   history fragments, in the order of the writes
    delivered,     \* history variable: the updates written to each client as
                   \*   live fragments, in the order of the writes
    live,          \* history variable: a payload taken from the channel was
                   \*   written to the client
    appended,      \* history variable: the updates appended to each Topic
    everFull,      \* history variable: some channel's buffer has been full
    dropped        \* history variable: the updates whose live fragment found
                   \*   the connection's channel full

vars == <<pc, topics, topicsMutex, chans, chansMutex, history, historyMutex,
          nextTopic, queue, broken, topic, t, data, idx, msg, form, update,
          tearing, nextUpdate, replayed, delivered, live, appended,
          everFull, dropped>>

(***************************************************************************)
(* sync.RWMutex: the set of the readers inside.  A writer is inside only   *)
(* within one step, so no state shows one.                                 *)
(***************************************************************************)
NewMutex == {}

\* Lock() returns when no reader is inside
CanLock(m) == m = {}

RLock(m, self) == m \cup {self}

\* an RUnlock that leaves the reader inside
RUnlockNever(m, self) == m

RUnlock(m, self) == m \ {self}

(***************************************************************************)
(* Values.                                                                 *)
(***************************************************************************)
NoPayload == [kind |-> "none", message |-> <<>>, timestamp |-> NoTimestamp, count |-> 0, id |-> 0]

NoUpdate == [timestamp |-> NoTimestamp, message |-> <<>>, id |-> 0]

\* &Update{timestamp: ..., message: ...}; id is the identity of the object
NewUpdate(ts, m, n) == [timestamp |-> ts, message |-> m, id |-> n]

\* "<style>#nc::before{content:\"%d\"}</style>"
CountFragment(n) ==
    [kind |-> "count", message |-> <<>>, timestamp |-> NoTimestamp, count |-> n, id |-> 0]

\* "<div class=\"new\"><p>%s</p><time>%s</time></div>"
LiveFragment(u) ==
    [kind |-> "new", message |-> u.message, timestamp |-> u.timestamp,
     count |-> 0, id |-> u.id]

\* "<div><p>%s</p><time>%s</time></div>"
HistoryFragment(u) ==
    [kind |-> "hist", message |-> u.message, timestamp |-> u.timestamp,
     count |-> 0, id |-> u.id]

\* template.HTMLEscapeString, on the characters of the model's alphabet
EscapeChar(ch) ==
    CASE ch = "<" -> <<"&", "l", "t", ";">>
      [] ch = "&" -> <<"&", "a", "m", "p", ";">>
      [] OTHER -> <<ch>>

RECURSIVE HTMLEscapeString(_)
HTMLEscapeString(s) ==
    IF s = <<>> THEN <<>> ELSE EscapeChar(Head(s)) \o HTMLEscapeString(Tail(s))

\* strings.TrimSpace
RECURSIVE TrimLeft(_)
TrimLeft(s) ==
    IF s # <<>> /\ Head(s) = " " THEN TrimLeft(Tail(s)) ELSE s

RECURSIVE TrimRight(_)
TrimRight(s) ==
    IF s # <<>> /\ s[Len(s)] = " " THEN TrimRight(SubSeq(s, 1, Len(s) - 1)) ELSE s

TrimSpace(s) == TrimRight(TrimLeft(s))

\* the form values the posters submit
Oversize == [i \in 1..(maxMsgLen + 1) |-> "a"]

RawMsgs == {<<" ", "a">>, <<" ">>, Oversize}

\* and some with characters that the escaping expands
Forms == RawMsgs \cup {<<"<">>, <<"a", "&">>, <<>>}

NoForm == <<>>

\* Topic.append, lines 79-82: the new history
\* append that evicts the newest update instead of the oldest
AppendKeepOldest(h, u) ==
    LET h1 == Append(h, u)
    IN  IF Len(h1) > historyLimit THEN SubSeq(h1, 1, historyLimit) ELSE h1

\* append, lines 79-82
AppendHistory(h, u) ==
    LET h1 == Append(h, u)
    IN  IF Len(h1) > historyLimit
        THEN SubSeq(h1, Len(h1) - historyLimit + 1, Len(h1))
        ELSE h1

\* a range loop that runs from the newest update to the oldest
HistoryEntryNewestFirst(h, i) == h[Len(h) + 1 - i]

\* sendHistory, line 119: the update of the i-th iteration of the range loop
HistoryEntry(h, i) == h[i]

\* updateCount, line 87: len(t.chans)
CountOf(subscribers) == Cardinality(subscribers)

\* select { case ch <- data: default: }: the new buffer of the channel
ChanFull(q) == Len(q) >= bufferSize

\* a send that makes room in a full buffer by dropping its oldest payload
TrySendEvict(q, d) == IF ChanFull(q) THEN Append(Tail(q), d) ELSE Append(q, d)

\* lines 91-95 and 107-111: the send that gives up when the buffer is full
TrySend(q, d) == IF ChanFull(q) THEN q ELSE Append(q, d)

\* a removeChan that leaves the channel in the set
RemoveNothing(subscribers, c) == subscribers

\* a delete that empties the set when the channel is not in it
RemoveOrClear(subscribers, c) ==
    IF c \in subscribers THEN subscribers \ {c} ELSE {}

\* removeChan, line 170: delete(t.chans, ch)
RemoveChan(subscribers, c) == subscribers \ {c}

\* a removeChan that never deletes the topic
EvictNever(reg, n, subscribers) == reg

\* a removeChan that deletes the topic whoever is left
EvictAlways(reg, n, subscribers) == [reg EXCEPT ![n] = NoTopic]

\* removeChan, lines 171-173: the topic is deleted with its last channel
Evict(reg, n, subscribers) ==
    IF CountOf(subscribers) = 0 THEN [reg EXCEPT ![n] = NoTopic] ELSE reg

\* removeChan, lines 164-173, as a function of the registry and the subscriber
\* sets: what a call with topic name n and channel c leaves of them
removeChan(reg, sets, n, c) ==
    IF reg[n] = NoTopic
    THEN <<reg, sets>>
    ELSE <<Evict(reg, n, RemoveChan(sets[reg[n]], c)),
           [sets EXCEPT ![reg[n]] = RemoveChan(@, c)]>>

\* addChan, lines 147 and 151: both Lock() calls return
CanAddChan(n) ==
    /\ CanLock(topicsMutex)
    /\ topics[n] # NoTopic => CanLock(chansMutex[topics[n]])

\* a removeChan that does not wait for its locks
CanRemoveAlways(n) == TRUE

\* removeChan, lines 162 and 168: both Lock() calls return
CanRemoveChan(n) ==
    /\ CanLock(topicsMutex)
    /\ topics[n] # NoTopic => CanLock(chansMutex[topics[n]])

\* where GetHandler is inside a w.Write call
WriteStates == {"head_write", "hist_write", "msg_write", "ping_write"}

Init ==
    /\ pc = [p \in Procs |-> "idle"]
    /\ topics = [n \in Topics |-> NoTopic]
    /\ topicsMutex = NewMutex
    /\ chans = [i \in TopicIds |-> {}]
    /\ chansMutex = [i \in TopicIds |-> NewMutex]
    /\ history = [i \in TopicIds |-> <<>>]
    /\ historyMutex = [i \in TopicIds |-> NewMutex]
    /\ nextTopic = 0
    /\ queue = [c \in Conns |-> <<>>]
    /\ broken = [c \in Conns |-> FALSE]
    /\ topic = [p \in Procs |-> "a"]
    /\ t = [p \in Procs |-> NoTopic]
    /\ data = [c \in Conns |-> NoPayload]
    /\ idx = [c \in Conns |-> 0]
    /\ msg = [c \in Conns |-> NoPayload]
    /\ form = [p \in Posters |-> NoForm]
    /\ update = [p \in Posters |-> NoUpdate]
    /\ tearing = [c \in Conns |-> FALSE]
    /\ nextUpdate = 0
    /\ replayed = [c \in Conns |-> <<>>]
    /\ delivered = [c \in Conns |-> <<>>]
    /\ live = [c \in Conns |-> FALSE]
    /\ appended = [i \in TopicIds |-> <<>>]
    /\ everFull = FALSE
    /\ dropped = [c \in Conns |-> {}]


\* "for ch := range t.chans { select { case ch <- data: default: } }" under
\* t.chansMutex.RLock(): the new buffers of all channels
\* a fan-out that reaches no channel
FanOutNowhere(q, subscribers, d) == q

\* a fan-out that reaches every channel of the server
FanOutEverywhere(q, subscribers, d) == [c \in Conns |-> TrySend(q[c], d)]

\* lines 90-96 and 106-112: the range loop over t.chans
FanOut(q, subscribers, d) ==
    [c \in Conns |-> IF c \in subscribers THEN TrySend(q[c], d) ELSE q[c]]

SomeFull(q) == \E c \in Conns : ChanFull(q[c])

(***************************************************************************)
(* App.GetHandler, lines 176-214, with App.addChan, Topic.sendHistory,     *)
(* Topic.updateCount and App.removeChan as it calls them.                  *)
(***************************************************************************)
\* lines 177-186: a GET for some topic arrives; ch := make(chan []byte, bufferSize)
GetStart(c, names) ==
    /\ pc[c] = "idle"
    /\ \E n \in names : topic' = [topic EXCEPT ![c] = n]
    /\ pc' = [pc EXCEPT ![c] = "add"]
    /\ UNCHANGED <<topics, topicsMutex, chans, chansMutex, history,
                  historyMutex, nextTopic, queue, broken, t, data, idx, msg,
                  form, update, tearing, nextUpdate, replayed, delivered,
                  live, appended, everFull, dropped>>

\* an addChan that does not look the name up: every call makes a Topic
SubscribeAlwaysNew(c) ==
    /\ pc[c] = "add"
    /\ CanAddChan(topic[c])
    /\ nextTopic' = nextTopic + 1
    /\ topics' = [topics EXCEPT ![topic[c]] = nextTopic + 1]
    /\ chans' = [chans EXCEPT ![nextTopic + 1] = @ \cup {c}]
    /\ t' = [t EXCEPT ![c] = nextTopic + 1]
    /\ pc' = [pc EXCEPT ![c] = "head_write"]
    /\ UNCHANGED <<topicsMutex, chansMutex, history, historyMutex, queue,
                  broken, topic, data, idx, msg, form, update, tearing,
                  nextUpdate, replayed, delivered, live, appended, everFull,
                  dropped>>

\* addChan, lines 146-159
Subscribe(c) ==
    /\ pc[c] = "add"
    /\ CanAddChan(topic[c])
    /\ IF topics[topic[c]] # NoTopic
       THEN /\ chans' = [chans EXCEPT ![topics[topic[c]]] = @ \cup {c}]
            /\ t' = [t EXCEPT ![c] = topics[topic[c]]]
            /\ UNCHANGED <<topics, nextTopic>>
       ELSE /\ nextTopic' = nextTopic + 1
            /\ topics' = [topics EXCEPT ![topic[c]] = nextTopic + 1]
            /\ chans' = [chans EXCEPT ![nextTopic + 1] = @ \cup {c}]
            /\ t' = [t EXCEPT ![c] = nextTopic + 1]
    /\ pc' = [pc EXCEPT ![c] = "head_write"]
    /\ UNCHANGED <<topicsMutex, chansMutex, history, historyMutex, queue,
                  broken, topic, data, idx, msg, form, update, tearing,
                  nextUpdate, replayed, delivered, live, appended, everFull,
                  dropped>>

\* GetHandler, line 192: w.Write(pageHead) returns, its error is ignored;
\* sendHistory, lines 117-119: t.historyMutex.RLock(), and the range loop starts
HeadWrite(c) ==
    /\ pc[c] = "head_write"
    /\ IF history[t[c]] = <<>>
       THEN /\ pc' = [pc EXCEPT ![c] = "uc_read"]
            /\ UNCHANGED <<idx, historyMutex>>
       ELSE /\ historyMutex' = [historyMutex EXCEPT ![t[c]] = RLock(@, c)]
            /\ idx' = [idx EXCEPT ![c] = 1]
            /\ pc' = [pc EXCEPT ![c] = "hist_write"]
    /\ UNCHANGED <<topics, topicsMutex, chans, chansMutex, history,
                  nextTopic, queue, broken, topic, t, data, msg, form,
                  update, tearing, nextUpdate, replayed, delivered, live,
                  appended, everFull, dropped>>

\* sendHistory, lines 120-126: w.Write of one history fragment returns; after
\* the last one, or an error, the deferred RUnlock (line 118) and lines 194-197
HistWrite(c) ==
    /\ pc[c] = "hist_write"
    /\ IF broken[c]
       THEN /\ historyMutex' = [historyMutex EXCEPT ![t[c]] = RUnlock(@, c)]
            /\ idx' = [idx EXCEPT ![c] = 0]
            /\ tearing' = [tearing EXCEPT ![c] = TRUE]
            /\ pc' = [pc EXCEPT ![c] = "rm"]
            /\ UNCHANGED replayed
       ELSE /\ replayed' = [replayed EXCEPT ![c] = Append(@, HistoryEntry(history[t[c]], idx[c]).id)]
            /\ IF idx[c] >= Len(history[t[c]])
               THEN /\ historyMutex' = [historyMutex EXCEPT ![t[c]] = RUnlock(@, c)]
                    /\ idx' = [idx EXCEPT ![c] = 0]
                    /\ pc' = [pc EXCEPT ![c] = "uc_read"]
               ELSE /\ idx' = [idx EXCEPT ![c] = @ + 1]
                    /\ UNCHANGED <<historyMutex, pc>>
            /\ UNCHANGED tearing
    /\ UNCHANGED <<topics, topicsMutex, chans, chansMutex, history,
                  nextTopic, queue, broken, topic, t, data, msg, form,
                  update, nextUpdate, delivered, live, appended, everFull,
                  dropped>>

\* updateCount, line 87: len(t.chans) is read before the lock is taken
UcRead(c) ==
    /\ pc[c] = "uc_read"
    /\ data' = [data EXCEPT ![c] = CountFragment(CountOf(chans[t[c]]))]
    /\ pc' = [pc EXCEPT ![c] = "uc_send"]
    /\ UNCHANGED <<topics, topicsMutex, chans, chansMutex, history,
                  historyMutex, nextTopic, queue, broken, topic, t, idx, msg,
                  form, update, tearing, nextUpdate, replayed, delivered,
                  live, appended, everFull, dropped>>

\* updateCount, lines 88-96: the fan-out of the count fragment under the read
\* lock; then the stream loop (line 199), or the return from the deferred
\* function (line 190)
UcSend(c) ==
    /\ pc[c] = "uc_send"
    /\ chansMutex' = [chansMutex EXCEPT ![t[c]] = RUnlock(RLock(@, c), c)]
    /\ data' = [data EXCEPT ![c] = NoPayload]
    /\ everFull' = (everFull \/ SomeFull(FanOut(queue, chans[t[c]], data[c])))
    /\ IF tearing[c]
       THEN /\ pc' = [pc EXCEPT ![c] = "done"]
            /\ t' = [t EXCEPT ![c] = NoTopic]
            /\ tearing' = [tearing EXCEPT ![c] = FALSE]
            /\ queue' = [FanOut(queue, chans[t[c]], data[c]) EXCEPT ![c] = <<>>]
            /\ replayed' = [replayed EXCEPT ![c] = <<>>]
            /\ delivered' = [delivered EXCEPT ![c] = <<>>]
            /\ live' = [live EXCEPT ![c] = FALSE]
            /\ dropped' = [dropped EXCEPT ![c] = {}]
       ELSE /\ pc' = [pc EXCEPT ![c] = "loop"]
            /\ queue' = FanOut(queue, chans[t[c]], data[c])
            /\ UNCHANGED <<t, tearing, replayed, delivered, live, dropped>>
    /\ UNCHANGED <<topics, topicsMutex, chans, history, historyMutex,
                  nextTopic, broken, topic, idx, msg, form, update,
                  nextUpdate, appended>>

\* GetHandler, line 201: case msg := <-ch
Recv(c) ==
    /\ pc[c] = "loop"
    /\ queue[c] # <<>>
    /\ msg' = [msg EXCEPT ![c] = Head(queue[c])]
    /\ queue' = [queue EXCEPT ![c] = Tail(@)]
    /\ pc' = [pc EXCEPT ![c] = "msg_write"]
    /\ UNCHANGED <<topics, topicsMutex, chans, chansMutex, history,
                  historyMutex, nextTopic, broken, topic, t, data, idx, form,
                  update, tearing, nextUpdate, replayed, delivered, live,
                  appended, everFull, dropped>>

\* GetHandler, lines 202-205 and 212: w.Write(msg) returns
MsgWrite(c) ==
    /\ pc[c] = "msg_write"
    /\ msg' = [msg EXCEPT ![c] = NoPayload]
    /\ IF broken[c]
       THEN /\ tearing' = [tearing EXCEPT ![c] = TRUE]
            /\ pc' = [pc EXCEPT ![c] = "rm"]
            /\ UNCHANGED <<delivered, live>>
       ELSE /\ delivered' = IF msg[c].kind = "new"
                            THEN [delivered EXCEPT ![c] = Append(@, msg[c].id)]
                            ELSE delivered
            /\ live' = [live EXCEPT ![c] = TRUE]
            /\ pc' = [pc EXCEPT ![c] = "loop"]
            /\ UNCHANGED tearing
    /\ UNCHANGED <<topics, topicsMutex, chans, chansMutex, history,
                  historyMutex, nextTopic, queue, broken, topic, t, data,
                  idx, form, update, nextUpdate, replayed, appended,
                  everFull, dropped>>

\* GetHandler, line 206: case <-time.After(pingRate), nothing having arrived
Timer(c) ==
    /\ pc[c] = "loop"
    /\ queue[c] = <<>>
    /\ pc' = [pc EXCEPT ![c] = "ping_write"]
    /\ UNCHANGED <<topics, topicsMutex, chans, chansMutex, history,
                  historyMutex, nextTopic, queue, broken, topic, t, data,
                  idx, msg, form, update, tearing, nextUpdate, replayed,
                  delivered, live, appended, everFull, dropped>>

\* GetHandler, lines 207-212: w.Write of the keepalive byte returns
PingWrite(c) ==
    /\ pc[c] = "ping_write"
    /\ IF broken[c]
       THEN /\ tearing' = [tearing EXCEPT ![c] = TRUE]
            /\ pc' = [pc EXCEPT ![c] = "rm"]
       ELSE /\ pc' = [pc EXCEPT ![c] = "loop"]
            /\ UNCHANGED tearing
    /\ UNCHANGED <<topics, topicsMutex, chans, chansMutex, history,
                  historyMutex, nextTopic, queue, broken, topic, t, data,
                  idx, msg, form, update, nextUpdate, replayed, delivered,
                  live, appended, everFull, dropped>>

\* removeChan, lines 161-174; then GetHandler, line 189
Unsubscribe(c) ==
    /\ pc[c] = "rm"
    /\ CanRemoveChan(topic[c])
    /\ LET rt == topics[topic[c]]
       IN  IF rt = NoTopic
           THEN UNCHANGED <<chans, topics>>
           ELSE /\ chans' = [chans EXCEPT ![rt] = RemoveChan(@, c)]
                /\ topics' = Evict(topics, topic[c], RemoveChan(chans[rt], c))
    /\ pc' = [pc EXCEPT ![c] = "uc_read"]
    /\ UNCHANGED <<topicsMutex, chansMutex, history, historyMutex, nextTopic,
                  queue, broken, topic, t, data, idx, msg, form, update,
                  tearing, nextUpdate, replayed, delivered, live, appended,
                  everFull, dropped>>

\* the client goes away: from now on every write to it fails (the handler can
\* tell only in a write, so the step is taken while it is in one)
Disconnect(c) ==
    /\ pc[c] \in WriteStates
    /\ ~broken[c]
    /\ broken' = [broken EXCEPT ![c] = TRUE]
    /\ UNCHANGED <<pc, topics, topicsMutex, chans, chansMutex, history,
                  historyMutex, nextTopic, queue, topic, t, data, idx, msg,
                  form, update, tearing, nextUpdate, replayed, delivered,
                  live, appended, everFull, dropped>>

(***************************************************************************)
(* App.PostHandler, lines 216-239, with Topic.send and Topic.append.       *)
(***************************************************************************)
\* lines 217-220: a POST for some topic arrives; app.topicsMutex.RLock()
PostStart(p, names, posts, forms) ==
    /\ pc[p] = "idle"
    /\ nextUpdate + Cardinality({q \in Posters : pc[q] = "post_lookup"}) < posts
    /\ \E n \in names : topic' = [topic EXCEPT ![p] = n]
    /\ \E raw \in forms : form' = [form EXCEPT ![p] = raw]
    /\ topicsMutex' = RLock(topicsMutex, p)
    /\ pc' = [pc EXCEPT ![p] = "post_lookup"]
    /\ UNCHANGED <<topics, chans, chansMutex, history, historyMutex,
                  nextTopic, queue, broken, t, data, idx, msg, update,
                  tearing, nextUpdate, replayed, delivered, live, appended,
                  everFull, dropped>>

\* a PostHandler without the length check of lines 226-229
PostLookupNoBound(p) ==
    /\ pc[p] = "post_lookup"
    /\ form' = [form EXCEPT ![p] = NoForm]
    /\ \E ts \in Timestamps :
         LET raw == form[p]
             m == TrimSpace(HTMLEscapeString(raw))
         IN  IF /\ topics[topic[p]] # NoTopic
                /\ Len(m) > 0
             THEN /\ nextUpdate' = nextUpdate + 1
                  /\ update' = [update EXCEPT ![p] = NewUpdate(ts, m, nextUpdate + 1)]
                  /\ t' = [t EXCEPT ![p] = topics[topic[p]]]
                  /\ pc' = [pc EXCEPT ![p] = "append"]
                  /\ UNCHANGED topicsMutex
             ELSE /\ topicsMutex' = RUnlock(topicsMutex, p)
                  /\ pc' = [pc EXCEPT ![p] = "idle"]
                  /\ UNCHANGED <<nextUpdate, update, t>>
    /\ UNCHANGED <<topics, chans, chansMutex, history, historyMutex,
                  nextTopic, queue, broken, topic, data, idx, msg, tearing,
                  replayed, delivered, live, appended, everFull, dropped>>

\* lines 221-236: the lookup, the form value, its checks, and the new Update;
\* a request that is turned away is redirected and returns (lines 220, 238)
PostLookup(p) ==
    /\ pc[p] = "post_lookup"
    /\ form' = [form EXCEPT ![p] = NoForm]
    /\ \E ts \in Timestamps :
         LET raw == form[p]
             m == TrimSpace(HTMLEscapeString(raw))
         IN  IF /\ topics[topic[p]] # NoTopic
                /\ Len(raw) <= maxMsgLen
                /\ Len(m) > 0
             THEN /\ nextUpdate' = nextUpdate + 1
                  /\ update' = [update EXCEPT ![p] = NewUpdate(ts, m, nextUpdate + 1)]
                  /\ t' = [t EXCEPT ![p] = topics[topic[p]]]
                  /\ pc' = [pc EXCEPT ![p] = "append"]
                  /\ UNCHANGED topicsMutex
             ELSE /\ topicsMutex' = RUnlock(topicsMutex, p)
                  /\ pc' = [pc EXCEPT ![p] = "idle"]
                  /\ UNCHANGED <<nextUpdate, update, t>>
    /\ UNCHANGED <<topics, chans, chansMutex, history, historyMutex,
                  nextTopic, queue, broken, topic, data, idx, msg, tearing,
                  replayed, delivered, live, appended, everFull, dropped>>

\* append, lines 76-83
AppendUpdate(p) ==
    /\ pc[p] = "append"
    /\ CanLock(historyMutex[t[p]])
    /\ history' = [history EXCEPT ![t[p]] = AppendHistory(@, update[p])]
    /\ appended' = [appended EXCEPT ![t[p]] = Append(@, update[p].id)]
    /\ pc' = [pc EXCEPT ![p] = "send"]
    /\ UNCHANGED <<topics, topicsMutex, chans, chansMutex, historyMutex,
                  nextTopic, queue, broken, topic, t, data, idx, msg, form,
                  update, tearing, nextUpdate, replayed, delivered, live,
                  everFull, dropped>>

\* send, lines 101-112: the fan-out of the live fragment under the read lock;
\* PostHandler, lines 238 and 220 (deferred): the redirect and RUnlock
Send(p) ==
    /\ pc[p] = "send"
    /\ chansMutex' = [chansMutex EXCEPT ![t[p]] = RUnlock(RLock(@, p), p)]
    /\ queue' = FanOut(queue, chans[t[p]], LiveFragment(update[p]))
    /\ everFull' = (everFull \/ SomeFull(queue'))
    /\ dropped' = [c \in Conns |->
                      IF c \in chans[t[p]] /\ ChanFull(queue[c])
                      THEN dropped[c] \cup {update[p].id}
                      ELSE dropped[c]]
    /\ topicsMutex' = RUnlock(topicsMutex, p)
    /\ update' = [update EXCEPT ![p] = NoUpdate]
    /\ t' = [t EXCEPT ![p] = NoTopic]
    /\ pc' = [pc EXCEPT ![p] = "idle"]
    /\ UNCHANGED <<topics, chans, history, historyMutex, nextTopic, broken,
                  topic, data, idx, msg, form, tearing, nextUpdate, replayed,
                  delivered, live, appended>>

(***************************************************************************)
(* The server with two connections, one poster and both topic names.       *)
(***************************************************************************)
Pair == {"c1", "c2"}

ConnStep(c, names) ==
    \/ GetStart(c, names) \/ Subscribe(c) \/ HeadWrite(c) \/ HistWrite(c)
    \/ UcRead(c) \/ UcSend(c) \/ Recv(c) \/ MsgWrite(c) \/ Timer(c)
    \/ PingWrite(c) \/ Unsubscribe(c)

PostStep(p, names, posts) ==
    \/ PostStart(p, names, posts, RawMsgs) \/ PostLookup(p) \/ AppendUpdate(p)
    \/ Send(p)

Next ==
    \/ \E c \in Pair : ConnStep(c, Topics) \/ Disconnect(c)
    \/ PostStep("p1", Topics, MaxPosts)

Spec == Init /\ [][Next]_vars

(***************************************************************************)
(* Two connections and one poster on one topic name, with one more update: *)
(* a history of several updates is replayed while updates arrive.  The     *)
(* first connection stays.                                                 *)
(***************************************************************************)
ReplayPosts == MaxPosts + 1

NextReplay ==
    \/ \E c \in Pair : ConnStep(c, {"a"})
    \/ Disconnect("c2")
    \/ PostStep("p1", {"a"}, ReplayPosts)

SpecReplay == Init /\ [][NextReplay]_vars

(***************************************************************************)
(* One connection and two posters on one topic name, with enough updates   *)
(* to overflow the history.                                                *)
(***************************************************************************)
HistoryPosts == historyLimit + 1

NextHistory ==
    \/ ConnStep("c1", {"a"}) \/ Disconnect("c1")
    \/ \E p \in Posters : PostStep(p, {"a"}, HistoryPosts)

SpecHistory == Init /\ [][NextHistory]_vars

(***************************************************************************)
(* Three connections on one topic name and no POST request: the subscriber *)
(* count as connections come and go; the third connection stays.  The      *)
(* history stays empty, so no replay writes anything.                      *)
(***************************************************************************)
CountStep(c) ==
    \/ GetStart(c, {"a"})
    \/ Subscribe(c)
    \/ HeadWrite(c)
    \/ UcRead(c)
    \/ UcSend(c)
    \/ Recv(c)
    \/ MsgWrite(c)
    \/ Timer(c)
    \/ PingWrite(c)
    \/ Unsubscribe(c)

NextCount ==
    \/ \E c \in Conns : CountStep(c)
    \/ \E c \in Pair : Disconnect(c)

SpecCount == Init /\ [][NextCount]_vars

(***************************************************************************)
(* Two connections and one poster on one topic name, every goroutine that  *)
(* can run being run: a handler goes on unless it waits for a lock, is in  *)
(* a write to a client that is still there (such a write may never         *)
(* return), or has not been started (requests come as they please).  The   *)
(* first connection stays.                                                 *)
(***************************************************************************)
ConnProgress(c) ==
    \/ Subscribe(c) \/ UcRead(c) \/ UcSend(c) \/ Recv(c) \/ Timer(c)
    \/ Unsubscribe(c)
    \/ broken[c] /\ (HeadWrite(c) \/ HistWrite(c) \/ MsgWrite(c) \/ PingWrite(c))

PostProgress(p) == PostLookup(p) \/ AppendUpdate(p) \/ Send(p)

NextLive ==
    \/ \E c \in Pair : ConnStep(c, {"a"})
    \/ Disconnect("c2")
    \/ PostStep("p1", {"a"}, MaxPosts)

LiveSpec ==
    /\ Init
    /\ [][NextLive]_vars
    /\ \A c \in Pair : WF_vars(ConnProgress(c))
    /\ WF_vars(PostProgress("p1"))

(***************************************************************************)
(* One connection on one topic name and one poster that submits every form *)
(* value to both names.                                                    *)
(***************************************************************************)
IngestPosts == MaxPosts + 1

NextIngest ==
    \/ ConnStep("c1", {"a"}) \/ Disconnect("c1")
    \/ PostStart("p1", Topics, IngestPosts, Forms)
    \/ PostLookup("p1") \/ AppendUpdate("p1") \/ Send("p1")

SpecIngest == Init /\ [][NextIngest]_vars

(***************************************************************************)
(* Two connections and one poster on one topic name, with enough updates   *)
(* to overflow the history before the second connection replays it.  The   *)
(* client of the first connection never reads: its handler stays in the    *)
(* write of the page head.                                                 *)
(***************************************************************************)
NextGap ==
    \/ GetStart("c1", {"a"}) \/ Subscribe("c1")
    \/ ConnStep("c2", {"a"}) \/ Disconnect("c2")
    \/ PostStep("p1", {"a"}, HistoryPosts)

SpecGap == Init /\ [][NextGap]_vars

(***************************************************************************)
(* Two connections and one poster on one topic name, with one more update, *)
(* every goroutine that can run being run and every write to a client      *)
(* returning.  A Lock() that waits turns later RLock() calls away in Go, so *)
(* that the lock does come to the writer: here a writer waits from the     *)
(* moment it stands before its Lock(), and a reader gets in only while no  *)
(* writer waits.  The first connection stays, and no timer runs.           *)
(***************************************************************************)
WriterWaitsHistory(i) ==
    \E p \in Posters : pc[p] = "append" /\ t[p] = i

WriterWaitsRegistry ==
    \E c \in Conns : pc[c] \in {"add", "rm"}

ConnProgressPref(c) ==
    \/ Subscribe(c) \/ UcRead(c) \/ UcSend(c) \/ Recv(c) \/ Unsubscribe(c)
    \/ HistWrite(c) \/ MsgWrite(c)
    \/ ~WriterWaitsHistory(t[c]) /\ HeadWrite(c)

NextPref ==
    \/ \E c \in Pair :
           \/ GetStart(c, {"a"}) \/ ConnProgressPref(c)
    \/ Disconnect("c2")
    \/ ~WriterWaitsRegistry /\ PostStart("p1", {"a"}, ReplayPosts, RawMsgs)
    \/ PostProgress("p1")

PrefSpec ==
    /\ Init
    /\ [][NextPref]_vars
    /\ \A c \in Pair : WF_vars(ConnProgressPref(c))
    /\ WF_vars(PostProgress("p1"))

(***************************************************************************)
(* What the properties speak of.                                           *)
(***************************************************************************)
\* GetHandler, lines 186-189: between addChan's return and removeChan's the
\* connection's channel is registered
Subscribed(c) ==
    \/ pc[c] \in {"head_write", "hist_write", "loop", "msg_write", "ping_write", "rm"}
    \/ pc[c] \in {"uc_read", "uc_send"} /\ ~tearing[c]

\* the connections registered under a topic name
Subscribers(n) == {c \in Conns : Subscribed(c) /\ topic[c] = n}

\* the connections registered on a Topic object
SubscribersOf(i) == {c \in Conns : Subscribed(c) /\ t[c] = i}

\* PostHandler, line 235: it is in Topic.send, with a Topic and an Update
Broadcasting(p) == pc[p] \in {"append", "send"}

\* a step that is Topic.send's fan-out, and one that is updateCount's
SendStep(p) == pc[p] = "send" /\ pc'[p] = "idle"

AnnounceStep(c) == pc[c] = "uc_send" /\ pc'[c] # "uc_send"

Ids(h) == [i \in 1..Len(h) |-> h[i].id]

Min(a, b) == IF a < b THEN a ELSE b

LastN(s, n) == [i \in 1..Min(n, Len(s)) |-> s[Len(s) - Min(n, Len(s)) + i]]

IsSegment(s, w) ==
    \E k \in 0..(Len(w) - Len(s)) : \A i \in 1..Len(s) : s[i] = w[k + i]

IsCount(d) == d.kind = "count"

CountsIn(q) == SelectSeq(q, IsCount)

(***************************************************************************)
(* C1                                                                      *)
(***************************************************************************)
\* C1: a broadcast always runs to completion however long a subscriber
\* connection stalls in a write to its client, in the replay or in the stream
\* loop: a broadcast in progress never stands before a lock that a connection
\* holds while it is in a write.
C1_BroadcastNeverWaitsOnClientWrite ==
    \A p \in Posters :
        pc[p] = "append" =>
            \A c \in historyMutex[t[p]] : pc[c] \notin WriteStates

(***************************************************************************)
(* C2                                                                      *)
(***************************************************************************)
\* C2: count accuracy.  When M connections have subscribed to a topic and R of
\* them have torn down, every announce is finished and no channel's buffer
\* has ever been full, the last count fragment sent on the channel of each
\* remaining subscriber carries M - R.
C2_CountAccuracy ==
    \A n \in Topics :
        LET M == {c \in Conns : topic[c] = n /\ pc[c] \notin {"idle", "add"}}
            R == {c \in M : pc[c] = "done"}
        IN  (/\ ~everFull
             /\ \A c \in M : pc[c] \in {"loop", "msg_write", "ping_write", "done"})
            => \A c \in M \ R :
                   CountsIn(queue[c]) # <<>> =>
                       CountsIn(queue[c])[Len(CountsIn(queue[c]))].count
                           = Cardinality(M) - Cardinality(R)

(***************************************************************************)
(* C3                                                                      *)
(***************************************************************************)
\* C3: while a broadcast to one topic is in progress, a subscribe or an
\* unsubscribe on another topic does not wait for it; and a replay in progress
\* never makes a subscribe or an unsubscribe wait, not even through a
\* broadcast that waits for the replay.
C3_OtherTopicNeverWaits ==
    /\ \A p \in Posters, c \in Conns :
           Broadcasting(p) /\ topic[c] # topic[p] =>
               /\ pc[c] = "add" => CanAddChan(topic[c])
               /\ pc[c] = "rm" => CanRemoveChan(topic[c])
    /\ \A d \in Conns, c \in Conns :
           /\ pc[d] = "hist_write"
           /\ \/ pc[c] = "add" /\ ~CanAddChan(topic[c])
              \/ pc[c] = "rm" /\ ~CanRemoveChan(topic[c])
           => \A p \in topicsMutex :
                  ~(pc[p] = "append" /\ d \in historyMutex[t[p]])

(***************************************************************************)
(* C4                                                                      *)
(***************************************************************************)
\* C4: history bound.  The history of a Topic is never longer than
\* historyLimit; after N appends it holds min(N, historyLimit) updates, and
\* they are the last min(N, historyLimit) appended, in the order of the appends.
C4_HistoryBound ==
    \A i \in TopicIds :
        /\ Len(history[i]) <= historyLimit
        /\ Len(history[i]) = Min(Len(appended[i]), historyLimit)
        /\ Ids(history[i]) = LastN(appended[i], historyLimit)

\* the history has overflowed, after appends of both posters
C4_Witness ==
    \E i \in TopicIds :
        /\ Len(appended[i]) > historyLimit
        /\ Len(history[i]) = historyLimit
        /\ history[i][1].id = appended[i][Len(appended[i]) - historyLimit + 1]

(***************************************************************************)
(* C5                                                                      *)
(***************************************************************************)
\* C5: fan-out.  When none of the channels registered on the Topic is full,
\* one broadcast puts its live fragment at the end of each of them, and no
\* other channel changes.
C5_FanOut ==
    [][\A p \in Posters :
          (/\ SendStep(p)
           /\ \A c \in SubscribersOf(t[p]) : Len(queue[c]) < bufferSize)
          => \A c \in Conns :
                 queue'[c] = IF c \in SubscribersOf(t[p])
                             THEN queue[c] \o <<LiveFragment(update[p])>>
                             ELSE queue[c]]_vars

\* two channels end with the same live fragment, a third party's channel is
\* another matter
C5_Witness ==
    \E c, d \in Conns :
        /\ c # d
        /\ queue[c] # <<>>
        /\ queue[d] # <<>>
        /\ queue[c][Len(queue[c])].kind = "new"
        /\ queue[c][Len(queue[c])] = queue[d][Len(queue[d])]

(***************************************************************************)
(* C6                                                                      *)
(***************************************************************************)
\* what a fan-out of d to the channels registered on Topic i is to do
DropOnFull(i, d) ==
    \A c \in SubscribersOf(i) :
        queue'[c] = IF Len(queue[c]) = bufferSize
                    THEN queue[c]
                    ELSE queue[c] \o <<d>>

\* C6: drop on full.  A broadcast or a count announcement leaves a registered
\* channel that holds bufferSize payloads as it is, puts the payload on every
\* other registered channel, and the broadcast's update is in the history.
C6_DropOnFull ==
    [][/\ \A p \in Posters :
              SendStep(p) =>
                  /\ DropOnFull(t[p], LiveFragment(update[p]))
                  /\ \E i \in 1..Len(history[t[p]]) : history[t[p]][i] = update[p]
       /\ \A c \in Conns :
              AnnounceStep(c) => DropOnFull(t[c], data[c])]_vars

\* an update that is in the history and on one channel, and that a connection
\* registered before it, with a full channel, has not got and will not get
C6_Witness ==
    \E c, d \in Conns, k \in 1..nextUpdate :
        /\ c # d
        /\ t[c] # NoTopic
        /\ t[c] = t[d]
        /\ pc[c] = "loop"
        /\ Subscribed(d)
        /\ Len(queue[c]) = bufferSize
        /\ replayed[c] = <<>>
        /\ delivered[c] = <<>>
        /\ \A i \in 1..Len(queue[c]) : queue[c][i].kind = "count"
        /\ queue[d] # <<>>
        /\ queue[d][Len(queue[d])].kind = "new"
        /\ queue[d][Len(queue[d])].id = k
        /\ \E i \in 1..Len(history[t[c]]) : history[t[c]][i].id = k

(***************************************************************************)
(* C7                                                                      *)
(***************************************************************************)
\* C7: topic garbage collection.  The unsubscribe of the last channel
\* registered under a name leaves the name out of the registry; a subscribe
\* to a name that has no registered channel makes a Topic that was never used
\* before, with an empty history and the new channel as its only subscriber.
C7_GarbageCollection ==
    [][\A c \in Conns :
          /\ (/\ pc[c] = "rm"
              /\ pc'[c] = "uc_read"
              /\ Subscribers(topic[c]) = {c})
             => topics'[topic[c]] = NoTopic
          /\ (/\ pc[c] = "add"
              /\ pc'[c] = "head_write"
              /\ Subscribers(topic[c]) = {})
             => /\ topics'[topic[c]] \in TopicIds
                /\ topics'[topic[c]] > nextTopic
                /\ t'[c] = topics'[topic[c]]
                /\ history'[t'[c]] = <<>>
                /\ chans'[t'[c]] = {c}
                /\ \A d \in Conns \ {c} : t'[d] # t'[c]]_vars

\* a name whose first Topic got an update and lost its last channel, and
\* that has a second Topic now, without history
C7_Witness ==
    \E c, d \in Conns :
        /\ pc[c] = "done"
        /\ topic[c] = topic[d]
        /\ Subscribed(d)
        /\ t[d] = 2
        /\ topics[topic[d]] = 2
        /\ history[1] # <<>>
        /\ history[2] = <<>>

(***************************************************************************)
(* C8                                                                      *)
(***************************************************************************)
\* C8: a name is in the registry exactly when it has a registered channel:
\* the Topic of a registered channel is the one the registry has under the
\* channel's name, its subscriber set is the set of the channels registered
\* under the name, and a name without a registered channel has no entry.
C8_RegistryIffSubscribers ==
    /\ \A n \in Topics :
           IF Subscribers(n) = {}
           THEN topics[n] = NoTopic
           ELSE /\ topics[n] # NoTopic
                /\ chans[topics[n]] = Subscribers(n)
    /\ \A c \in Conns : Subscribed(c) => t[c] = topics[topic[c]]

\* one name has lost its last channel and its entry while the other name
\* keeps its entry and its channel
C8_Witness ==
    \E c, d \in Conns :
        /\ pc[c] = "done"
        /\ topic[c] # topic[d]
        /\ topics[topic[c]] = NoTopic
        /\ Subscribed(d)
        /\ topics[topic[d]] # NoTopic

(***************************************************************************)
(* C9                                                                      *)
(***************************************************************************)
\* C9: replay ordering.  What a connection has been sent as history is a run
\* of consecutive appends of its Topic, oldest first; when the replay ends it
\* is the whole history; and no history fragment is written once a payload
\* taken from the channel has been written.
C9_ReplayOrder ==
    /\ [](\A c \in Conns :
              /\ t[c] # NoTopic => IsSegment(replayed[c], appended[t[c]])
              /\ live[c] => pc[c] \notin {"head_write", "hist_write"})
    /\ [][\A c \in Conns :
             /\ (replayed'[c] # replayed[c] /\ pc'[c] # "done")
                => ~live[c] /\ ~live'[c]
             /\ (pc[c] = "hist_write" /\ pc'[c] = "uc_read")
                => replayed'[c] = Ids(history[t[c]])]_vars

\* a connection that replayed two updates and then wrote a live payload
C9_Witness ==
    \E c \in Conns :
        /\ Len(replayed[c]) >= 2
        /\ live[c]

C11_IdempotentTeardown ==
    /\ [](\A n \in Topics, c \in Conns :
              (topics[n] = NoTopic \/ c \notin chans[topics[n]])
                  => removeChan(topics, chans, n, c) = <<topics, chans>>)
    /\ [][\A c \in Conns :
             (pc[c] = "rm" /\ pc'[c] = "uc_read")
                 => /\ <<topics', chans'>> = removeChan(topics, chans, topic[c], c)
                    /\ history' = history]_vars

\* a second removeChan of a connection that has returned would find its name
\* made again by the other connection; the other name is not in the registry
C11_Witness ==
    \E c, d \in Conns, n \in Topics :
        /\ pc[c] = "done"
        /\ Subscribed(d)
        /\ topic[d] = topic[c]
        /\ topics[topic[c]] # NoTopic
        /\ c \notin chans[topics[topic[c]]]
        /\ chans[topics[topic[c]]] = {d}
        /\ topics[n] = NoTopic

(***************************************************************************)
(* C12                                                                     *)
(***************************************************************************)
\* C12: single topic creation.  While every connection that has arrived is
\* still registered, as many Topics have been made as there are names with a
\* registered channel, and the connections registered under one name have
\* got the same Topic from addChan, with all their channels in its set.
C12_SingleTopicCreation ==
    (\A c \in Conns : pc[c] \in {"idle", "add"} \/ Subscribed(c))
        => /\ nextTopic = Cardinality({topic[c] : c \in {d \in Conns : Subscribed(d)}})
           /\ \A c, d \in Conns :
                  (Subscribed(c) /\ Subscribed(d) /\ topic[c] = topic[d])
                      => t[c] = t[d] /\ c \in chans[t[d]]

\* three connections made their first subscribe to the name side by side,
\* and all three have returned from addChan
C12_Witness ==
    /\ \A c \in Conns : Subscribed(c) /\ topic[c] = "a" /\ pc[c] = "head_write"
    /\ nextTopic = 1

(***************************************************************************)
(* C13                                                                     *)
(***************************************************************************)
\* a form value of nothing but spaces
Blank(s) == \A i \in 1..Len(s) : s[i] = " "

\* what a POST has to leave alone when it is turned away
IngestFrame == <<topics, chans, history, queue, appended, nextUpdate>>

\* C13: ingest no-op.  A POST whose name has no registered channel, whose form
\* value is longer than maxMsgLen or is blank leaves the registry, the
\* histories and the channels as they are, from its arrival to its return;
\* any other POST makes one Update; and a history grows only by the one
\* Update of such a POST, whose fan-out puts only its live fragment on channels.
C13_IngestNoOp ==
    [][/\ \A p \in Posters :
            /\ (pc[p] = "idle" /\ pc'[p] = "post_lookup")
               => UNCHANGED IngestFrame
            /\ (pc[p] = "post_lookup" /\ pc'[p] # "post_lookup")
               => IF \/ Subscribers(topic[p]) = {}
                     \/ Len(form[p]) > maxMsgLen
                     \/ Blank(form[p])
                  THEN pc'[p] = "idle" /\ UNCHANGED IngestFrame
                  ELSE /\ pc'[p] = "append"
                       /\ nextUpdate' = nextUpdate + 1
                       /\ update'[p].id = nextUpdate'
                       /\ UNCHANGED <<topics, chans, history, queue, appended>>
       /\ \A i \in TopicIds :
            history'[i] # history[i]
               => \E p \in Posters :
                      /\ pc[p] = "append" /\ pc'[p] = "send" /\ t[p] = i
                      /\ appended'[i] = Append(appended[i], update[p].id)
                      /\ \E k \in 1..Len(history'[i]) : history'[i][k] = update[p]
                      /\ \A j \in TopicIds \ {i} : history'[j] = history[j]
       /\ \A c \in Conns :
            (/\ Len(queue'[c]) > Len(queue[c])
             /\ queue'[c][Len(queue'[c])].kind = "new")
               => \E p \in Posters :
                      /\ SendStep(p)
                      /\ queue'[c] = Append(queue[c], LiveFragment(update[p]))]_vars

\* one POST has been taken, its update is in the history and on the channel,
\* and a blank one for the same topic is about to be turned away
C13_Witness ==
    \E p \in Posters, c \in Conns :
        /\ pc[p] = "post_lookup"
        /\ form[p] # <<>>
        /\ Blank(form[p])
        /\ Subscribed(c)
        /\ topic[c] = topic[p]
        /\ Len(history[t[c]]) = 1
        /\ queue[c] # <<>>
        /\ queue[c][Len(queue[c])] = LiveFragment(history[t[c]][1])

(***************************************************************************)
(* C14                                                                     *)
(***************************************************************************)
\* a message as an Update is to have it
WellFormed(m) ==
    /\ m # <<>>
    /\ m[1] # " "
    /\ m[Len(m)] # " "
    /\ Len(m) <= maxMsgLen

\* C14: the message of every Update in a history, and of every live fragment
\* on a channel, is non-empty, trimmed and at most maxMsgLen long.
C14_MessageBound ==
    /\ \A i \in TopicIds :
           \A k \in 1..Len(history[i]) : WellFormed(history[i][k].message)
    /\ \A c \in Conns :
           \A k \in 1..Len(queue[c]) :
               queue[c][k].kind = "new" => WellFormed(queue[c][k].message)

(***************************************************************************)
(* C15                                                                     *)
(***************************************************************************)
\* C15: no lock is held across a write to a client: a connection that is in
\* a write is a reader of no lock (a writer is inside a lock only within one
\* step, which has no write in it).
C15_NoLockAcrossWrite ==
    \A c \in Conns :
        pc[c] \in WriteStates
            => /\ c \notin topicsMutex
               /\ \A i \in TopicIds :
                      c \notin chansMutex[i] /\ c \notin historyMutex[i]

(***************************************************************************)
(* C16                                                                     *)
(***************************************************************************)
\* C16: the subscriber set is read under its lock.  The fan-outs read it
\* inside the lock within their one step, addChan and removeChan hold it
\* exclusively; what is left is the size that updateCount reads for the count
\* fragment: the step that reads it is taken by a reader of the Topic's
\* subscriber-set lock.
C16_SetReadUnderLock ==
    [][\A c \in Conns :
          (pc[c] = "uc_read" /\ pc'[c] = "uc_send")
              => c \in chansMutex[t[c]]]_vars

(***************************************************************************)
(* C18                                                                     *)
(***************************************************************************)
\* C18: a broadcast never lands in an evicted Topic.  From the append to the
\* end of the fan-out the Topic of the broadcast is the one the registry has
\* under the name, and it has a registered channel.
C18_BroadcastOnLiveTopic ==
    /\ [](\A p \in Posters :
              pc[p] \in {"append", "send"}
                  => /\ p \in topicsMutex
                     /\ topics[topic[p]] = t[p]
                     /\ SubscribersOf(t[p]) # {}
                     /\ chans[t[p]] = SubscribersOf(t[p]))
    /\ [][\A p \in Posters :
             (pc[p] \in {"append", "send"} /\ pc'[p] # pc[p])
                 => /\ topics'[topic[p]] = t[p]
                    /\ chans'[t[p]] # {}]_vars

\* the only subscriber of the Topic wants to unsubscribe while the broadcast
\* is between its append and its fan-out
C18_Witness ==
    \E p \in Posters, c \in Conns :
        /\ pc[p] = "send"
        /\ pc[c] = "rm"
        /\ SubscribersOf(t[p]) = {c}

(***************************************************************************)
(* C19                                                                     *)
(***************************************************************************)
\* C19: at most once.  No Update is written to a connection twice: not twice
\* as a history fragment, not twice as a live fragment, and not as both.
C19_AtMostOnce ==
    \A c \in Conns :
        LET w == replayed[c] \o delivered[c]
        IN  \A i, j \in 1..Len(w) : i # j => w[i] # w[j]

(***************************************************************************)
(* C20                                                                     *)
(***************************************************************************)
\* the place of update k among the appends of Topic i (0: not among them)
Place(i, k) ==
    IF \E j \in 1..Len(appended[i]) : appended[i][j] = k
    THEN CHOOSE j \in 1..Len(appended[i]) : appended[i][j] = k
    ELSE 0

\* the appends of the connection's Topic that took effect after its replay
\* read the history: all of them if the history was empty then, else those
\* after the last update of the replay
AfterReplay(c) ==
    {appended[t[c]][j] : j \in
        {j \in 1..Len(appended[t[c]]) :
            replayed[c] # <<>> => j > Place(t[c], replayed[c][Len(replayed[c])])}}

\* the updates whose live fragment is on the connection's channel, in its
\* hands, or written to its client
Received(c) ==
    {queue[c][j].id : j \in {j \in 1..Len(queue[c]) : queue[c][j].kind = "new"}}
        \cup {delivered[c][j] : j \in 1..Len(delivered[c])}
        \cup (IF msg[c] # NoPayload /\ msg[c].kind = "new" THEN {msg[c].id} ELSE {})

\* the updates that are appended and whose fan-out is still to come
Pending(i) == {update[p].id : p \in {q \in Posters : pc[q] = "send" /\ t[q] = i}}

\* C20: no gap between replay and live feed.  For a connection that is past
\* its replay and has not had a write fail, every update appended to its
\* Topic after the replay read the history has been put on its channel, or
\* found the channel full, or is about to be fanned out; and the updates
\* before those are the replay's, but for the ones the history had evicted.
C20_NoGap ==
    \A c \in Conns :
        (pc[c] \in {"uc_read", "uc_send", "loop", "msg_write", "ping_write"} /\ ~tearing[c])
            => /\ c \in chans[t[c]]
               /\ AfterReplay(c) \subseteq Received(c) \cup dropped[c] \cup Pending(t[c])
               /\ \A j \in 1..Len(appended[t[c]]) :
                      \/ appended[t[c]][j] \in AfterReplay(c)
                      \/ \E k \in 1..Len(replayed[c]) : replayed[c][k] = appended[t[c]][j]
                      \/ /\ replayed[c] # <<>>
                         /\ j < Place(t[c], replayed[c][1])
                         /\ Len(replayed[c]) = historyLimit

\* a connection that replayed a full history and got the next update live,
\* which was appended after its replay and has evicted the oldest one
C20_Witness ==
    \E c \in Conns :
        /\ pc[c] = "loop"
        /\ Len(replayed[c]) = historyLimit
        /\ AfterReplay(c) # {}
        /\ \A k \in AfterReplay(c) : \E j \in 1..Len(delivered[c]) : delivered[c][j] = k
        /\ history[t[c]][1].id # replayed[c][1]

(***************************************************************************)
(* C17                                                                     *)
(***************************************************************************)
\* the processes that are in a subscribe, an unsubscribe, a broadcast, a
\* count announcement or a replay
InProgress(x) ==
    IF x \in Posters
    THEN pc[x] \in {"post_lookup", "append", "send"}
    ELSE pc[x] \in {"add", "rm", "head_write", "hist_write", "uc_read", "uc_send"}

\* the process has its next step open to it, a reader being let in only
\* when no writer waits, and a write to a client returning
CanStep(x) ==
    CASE pc[x] = "add" -> CanAddChan(topic[x])
      [] pc[x] = "rm" -> CanRemoveChan(topic[x])
      [] pc[x] = "head_write" -> ~WriterWaitsHistory(t[x])
      [] pc[x] = "append" -> CanLock(historyMutex[t[x]])
      [] OTHER -> TRUE

\* the processes whose locks the process waits for
WaitsFor(x) ==
    CASE pc[x] \in {"add", "rm"} -> topicsMutex
      [] pc[x] = "head_write" ->
             {p \in Posters : pc[p] = "append" /\ t[p] = t[x]}
      [] pc[x] = "append" -> historyMutex[t[x]]
      [] OTHER -> {}

WaitsForAll(S) == UNION {WaitsFor(y) : y \in S}

\* C17: deadlock freedom, every write to a client returning.  No process
\* waits, through any chain of lock holders, for itself, and every chain ends
\* in a process that can take its step; the readers of the registry lock are
\* in PostHandler, the readers of a history lock are in a replay write, where
\* they ask for no lock, and no subscriber-set lock is held from one step to
\* the next; and every subscribe, unsubscribe, broadcast, count announcement
\* and replay comes to its end, also where a waiting writer keeps readers out.
C17_DeadlockFreedom ==
    /\ [](\A x \in Procs :
              /\ x \notin WaitsFor(x)
              /\ x \notin WaitsForAll(WaitsFor(x))
              /\ x \notin WaitsForAll(WaitsForAll(WaitsFor(x)))
              /\ WaitsForAll(WaitsForAll(WaitsFor(x))) = {}
              /\ ~CanStep(x) => WaitsFor(x) # {}
              /\ \A y \in WaitsFor(x) :
                     CanStep(y) \/ \A z \in WaitsFor(y) : CanStep(z))
    /\ [](/\ \A p \in topicsMutex : p \in Posters /\ InProgress(p)
          /\ \A i \in TopicIds :
                 /\ \A c \in historyMutex[i] : pc[c] = "hist_write" /\ t[c] = i
                 /\ chansMutex[i] = {})
    /\ \A x \in Pair \cup {"p1"} : InProgress(x) ~> ~InProgress(x)

\* an unsubscribe waits for a broadcast that waits for a replay that is in a
\* write to its client
C17_Witness ==
    \E c, d \in Conns, p \in Posters :
        /\ pc[c] = "rm"
        /\ p \in WaitsFor(c)
        /\ pc[p] = "append"
        /\ d \in WaitsFor(p)
        /\ pc[d] = "hist_write"

====
